---- MODULE Spec2Model ----
(***************************************************************************)
(* png_squasher (src/src/main.rs): recursive discovery of *.png files, one *)
(* thread per file, alpha preprocessing, dimension planning in f32,        *)
(* re-encoding into a temporary file and replacement of the target by      *)
(* rename.                                                                 *)
(***************************************************************************)
EXTENDS Naturals, Integers, Sequences, FiniteSets, TLC

VARIABLES
    input,    \* argument of the function applied by SpecPlan / SpecAlpha / SpecFind
    output,   \* None, or Some(its result)
    args,     \* Args: [x_max, y_max, dir]
    tree,     \* the directory tree under the root: path -> kind of entry
    file,     \* the png entries on disk: path -> [image, data, readonly]
    before,   \* file, as the run found it
    tmpdir,   \* the temporary files: unit -> None or Some([state, v, size])
    pngs,     \* main: the Vec returned by find_png_paths
    unit,     \* the spawned threads: handle index -> thread state
    mainpc,   \* main: position
    joined,   \* main: i, the number of handles joined
    printed,  \* main: the percentages printed, in hundredths of a percent
    exit      \* main: None while running, Some("Ok") / Some("Err") once returned

pureVars == <<input, output>>
runVars == <<args, tree, file, before, tmpdir, pngs, unit, mainpc, joined, printed, exit>>
vars == <<input, output, args, tree, file, before, tmpdir, pngs, unit, mainpc, joined, printed, exit>>

(* ---------------------------------------------------------------------- *)
(* Bounds of the model                                                     *)
(* ---------------------------------------------------------------------- *)
\* largest image width/height drawn for the dimension planner
MaxDim == 5
\* largest --x-max / --y-max value drawn for the dimension planner
MaxArg == 6
\* largest file size, in bytes, of a target or of an encoding
MaxSize == 3

(* ---------------------------------------------------------------------- *)
(* Option<u32> : None is <<>>, Some(v) is <<v>>                            *)
(* ---------------------------------------------------------------------- *)
None == <<>>
Some(v) == <<v>>
IsSome(o) == Len(o) = 1
Unwrap(o) == o[1]

(* ---------------------------------------------------------------------- *)
(* IEEE-754 binary32 arithmetic on the small operands of the planner.      *)
(* A finite non-negative f32 is [m, e] with value m * 2^e, where either    *)
(* m = 0 or 2^23 <= m < 2^24 (24 significant bits, round to nearest even). *)
(* ---------------------------------------------------------------------- *)
MantBits == 24

RECURSIVE Pow2(_)
Pow2(n) == IF n = 0 THEN 1 ELSE 2 * Pow2(n - 1)

MantLo == Pow2(MantBits - 1)
MantHi == Pow2(MantBits)

F32Zero == [m |-> 0, e |-> 0]
F32One == [m |-> MantLo, e |-> -(MantBits - 1)]

\* number of bits by which q >= MantHi has to be shifted right to fit 24 bits
RECURSIVE ExcessBits(_)
ExcessBits(q) == IF q < MantHi THEN 0 ELSE 1 + ExcessBits(q \div 2)

\* number of bits by which 0 < q < MantLo has to be shifted left
RECURSIVE MissingBits(_)
MissingBits(q) == IF q >= MantLo THEN 0 ELSE 1 + MissingBits(q * 2)

\* q * 2^e (plus a non-zero remainder below q's last bit when sticky) rounded
\* to the nearest f32, ties to even
F32Round(q, sticky, e) ==
    IF q = 0 THEN F32Zero
    ELSE IF q < MantHi
    THEN LET s == MissingBits(q) IN [m |-> q * Pow2(s), e |-> e - s]
    ELSE LET s == ExcessBits(q)
             kept == q \div Pow2(s)
             dropped == q % Pow2(s)
             half == Pow2(s - 1)
             up == \/ dropped > half
                   \/ dropped = half /\ (sticky \/ kept % 2 = 1)
             r == IF up THEN kept + 1 ELSE kept
         IN  IF r = MantHi THEN [m |-> MantLo, e |-> e + s + 1]
                           ELSE [m |-> r, e |-> e + s]

\* `n as f32` for a u32 n (exact below 2^24)
U32AsF32(n) == F32Round(n, FALSE, 0)

\* shift that brings 0 < a into [2^29, 2^30)
RECURSIVE DivShift(_)
DivShift(a) == IF a >= Pow2(29) THEN 0 ELSE 1 + DivShift(a * 2)

\* `a as f32 / b as f32` for u32 a, b with 0 < b < 32 and a < 2^24
F32DivU32(a, b) ==
    IF a = 0 THEN F32Zero
    ELSE LET k == DivShift(a)
             n == a * Pow2(k)
         IN  F32Round(n \div b, n % b # 0, -k)

\* x < y on f32 values
F32Less(x, y) ==
    IF y.m = 0 THEN FALSE
    ELSE IF x.m = 0 THEN TRUE
    ELSE \/ x.e < y.e
         \/ x.e = y.e /\ x.m < y.m

\* f32::min
F32Min(x, y) == IF F32Less(y, x) THEN y ELSE x

\* `n as f32 * r` for a u32 n < 64
F32MulU32(n, r) == F32Round(n * r.m, FALSE, r.e)

\* `x as u32` : truncation toward zero
F32AsU32(x) ==
    IF x.m = 0 THEN 0
    ELSE IF x.e >= 0 THEN x.m * Pow2(x.e)
    ELSE IF -x.e >= MantBits THEN 0
    ELSE x.m \div Pow2(-x.e)

(* ---------------------------------------------------------------------- *)
(* compress_images, lines 88-98: the planned dimensions                    *)
(* ---------------------------------------------------------------------- *)
PlanDims(orig_width, orig_height, max_width, max_height) ==
    IF ~IsSome(max_width) /\ ~IsSome(max_height) THEN <<orig_width, orig_height>>
    ELSE IF ~IsSome(max_width)
    THEN <<F32AsU32(F32MulU32(orig_width, F32DivU32(Unwrap(max_height), orig_height))),
           Unwrap(max_height)>>
    ELSE IF ~IsSome(max_height)
    THEN <<Unwrap(max_width),
           F32AsU32(F32MulU32(orig_height, F32DivU32(Unwrap(max_width), orig_width)))>>
    ELSE LET w_ratio == F32Min(F32DivU32(Unwrap(max_width), orig_width), F32One)
             h_ratio == F32Min(F32DivU32(Unwrap(max_height), orig_height), F32One)
             r == F32Min(w_ratio, h_ratio)
         IN  <<F32AsU32(F32MulU32(orig_width, r)), F32AsU32(F32MulU32(orig_height, r))>>

(* ---------------------------------------------------------------------- *)
(* Decoded images.  A DynamicImage is [width, height, color, px]: px is    *)
(* the row-major sequence of pixels as GenericImageView::pixels() yields   *)
(* them, each [c, a] with c standing for the three colour channels and a   *)
(* for the alpha channel (255 throughout for a colour type without alpha). *)
(* ---------------------------------------------------------------------- *)
\* largest number of pixels of an image drawn for the alpha preprocessor
MaxPixels == 2

AlphaVals == {0, 200, 253, 254, 255}
ColorVals == {0, 1}
Opaque == 255
AlphaThreshold == 254

HasAlpha(img) == img.color = "Rgba8"

Shapes(n) == {d \in (1..n) \X (1..n) : d[1] * d[2] <= n}

ImagesOf(maxPixels) ==
    UNION {
        {[width |-> d[1], height |-> d[2], color |-> "Rgba8", px |-> px] :
            px \in [1..(d[1] * d[2]) -> [c : ColorVals, a : AlphaVals]]}
        \cup
        {[width |-> d[1], height |-> d[2], color |-> "Rgb8", px |-> px] :
            px \in [1..(d[1] * d[2]) -> [c : ColorVals, a : {Opaque}]]}
        : d \in Shapes(maxPixels)}

\* a file that ImageReader::open(..)?.decode()? rejects
Undecodable == [color |-> "undecodable"]

\* lines 55-58: RgbImage::new + put_pixel of the three colour channels
StripAlpha(img) ==
    [width |-> img.width, height |-> img.height, color |-> "Rgb8",
     px |-> [k \in 1..Len(img.px) |-> [c |-> img.px[k].c, a |-> Opaque]]]

\* the transparency test of line 52
AnyTransparentBelow253(img) == \E k \in 1..Len(img.px) : img.px[k].a < AlphaThreshold - 1

AnyTransparent(img) == \E k \in 1..Len(img.px) : img.px[k].a < AlphaThreshold

\* load_and_preprocess: Err, or Ok(vec of the variants)
LoadAndPreprocessReversed(decoded) ==
    IF decoded = Undecodable THEN [ok |-> FALSE, images |-> <<>>]
    ELSE IF ~HasAlpha(decoded) THEN [ok |-> TRUE, images |-> <<decoded>>]
    ELSE IF AnyTransparent(decoded) THEN [ok |-> TRUE, images |-> <<decoded>>]
    ELSE [ok |-> TRUE, images |-> <<StripAlpha(decoded), decoded>>]

LoadAndPreprocess(decoded) ==
    IF decoded = Undecodable THEN [ok |-> FALSE, images |-> <<>>]
    ELSE IF ~HasAlpha(decoded) THEN [ok |-> TRUE, images |-> <<decoded>>]
    ELSE IF AnyTransparent(decoded) THEN [ok |-> TRUE, images |-> <<decoded>>]
    ELSE [ok |-> TRUE, images |-> <<decoded, StripAlpha(decoded)>>]

(* ---------------------------------------------------------------------- *)
(* Paths.  A file name is the sequence of its characters, a path the       *)
(* sequence of the names below the root ".".                               *)
(* ---------------------------------------------------------------------- *)
Dot == "."
PngExt == <<"p", "n", "g">>

\* index of the last "." of a name, 0 if there is none
RECURSIVE LastDot(_, _)
LastDot(name, k) ==
    IF k = 0 THEN 0
    ELSE IF name[k] = Dot THEN k
    ELSE LastDot(name, k - 1)

\* Path::extension(): None without a ".", and None for a name that only
\* starts with its single "."; otherwise the part after the last "."
Extension(name) ==
    LET d == LastDot(name, Len(name))
    IN  IF d <= 1 THEN None ELSE Some(SubSeq(name, d + 1, Len(name)))

\* a set as a sequence, in the order the directory happens to be listed
RECURSIVE SetToSeq(_)
SetToSeq(S) ==
    IF S = {} THEN <<>>
    ELSE LET x == CHOOSE y \in S : TRUE IN <<x>> \o SetToSeq(S \ {x})

RECURSIVE Flatten(_)
Flatten(ss) == IF ss = <<>> THEN <<>> ELSE Head(ss) \o Flatten(Tail(ss))

IsDir(t, path) == t[path] \in {"dir", "noaccess"}

\* read_dir(path): Err, or the entries of the directory
ReadDir(t, path) ==
    IF path \notin DOMAIN t \/ t[path] # "dir" THEN [ok |-> FALSE, entries |-> <<>>]
    ELSE [ok |-> TRUE,
          entries |-> SetToSeq({q \in DOMAIN t :
                         Len(q) = Len(path) + 1 /\ SubSeq(q, 1, Len(path)) = path})]

HasPngExtension(path) == Extension(path[Len(path)]) = Some(PngExt)

\* find_png_paths, lines 106-133
RECURSIVE FindPngPaths(_, _)
FindPngPaths(t, path) ==
    LET res == ReadDir(t, path)
    IN  IF ~res.ok THEN <<>>
        ELSE LET entries == res.entries
                 png_entries == SelectSeq(entries, HasPngExtension)
                 dir_entries == SelectSeq(entries, LAMBDA q : IsDir(t, q))
                 child_pngs == Flatten([k \in 1..Len(dir_entries) |->
                                           FindPngPaths(t, dir_entries[k])])
             IN  png_entries \o child_pngs

Root == <<>>

(* ---------------------------------------------------------------------- *)
(* main, lines 153-161: the progress lines                                 *)
(* ---------------------------------------------------------------------- *)
PercentScale == 100
Hundredths == 100

\* format!("{:06.2}", x): the decimal rendering of x with two fractional
\* digits, as the number of hundredths (exact value, ties to even)
Format2(x) ==
    IF x.m = 0 THEN 0
    ELSE IF x.e >= 0 THEN x.m * Pow2(x.e) * Hundredths
    ELSE LET n == x.m * Hundredths
             d == Pow2(-x.e)
             q == n \div d
             r == n % d
         IN  IF 2 * r > d \/ (2 * r = d /\ q % 2 = 1) THEN q + 1 ELSE q

\* the line printed after the join of handle number i (from 0) out of len
ProgressLine(i, len) == Format2(F32MulU32(PercentScale, F32DivU32(i, len)))

\* the last line, println!("{:06.2}%", 100.0)
FinalLine == Format2(U32AsF32(PercentScale))

(* ---------------------------------------------------------------------- *)
(* The run: main, the spawned threads, compress_images, compress_image     *)
(* ---------------------------------------------------------------------- *)
Sizes == 1..MaxSize

\* the bytes of a file: v = 0 for the content found by the run, v = k for
\* what the encoder wrote for variant k; state is "complete" for a whole image
OrigData(size) == [v |-> 0, state |-> "complete", size |-> size]

Units == DOMAIN unit

Finished(un) == un.pc \in {"done", "panicked"}

\* the thread spawned for a path, about to call compress_images (line 148)
NewUnit(png) ==
    [png |-> png, pc |-> "load", variants |-> <<>>, k |-> 0, dims |-> <<0, 0>>,
     start |-> None, faulted |-> FALSE, resampled |-> FALSE, calls |-> <<>>,
     result |-> "running"]

\* the bookkeeping of one compress_image call that has returned
CallRecord(un, outcome, at, enc, end) ==
    [k |-> un.k, outcome |-> outcome, at |-> at, start |-> Unwrap(un.start),
     enc |-> enc, faulted |-> un.faulted, dims |-> un.dims,
     resampled |-> un.resampled, end |-> end]

\* compress_images, lines 87-103: the loop goes to the next variant after an
\* Ok(()) of compress_image and returns the first Err
AfterReturnIgnoringErr(un, outcome, at, enc, end) ==
    LET rec == CallRecord(un, outcome, at, enc, end)
        base == [un EXCEPT !.calls = Append(@, rec), !.start = None, !.faulted = FALSE]
    IN  IF un.k < Len(un.variants)
        THEN [base EXCEPT !.pc = "tmpnew", !.k = un.k + 1]
        ELSE [base EXCEPT !.pc = "done", !.result = "Ok"]

AfterReturn(un, outcome, at, enc, end) ==
    LET rec == CallRecord(un, outcome, at, enc, end)
        base == [un EXCEPT !.calls = Append(@, rec), !.start = None, !.faulted = FALSE]
    IN  IF outcome = "Failed"
        THEN [base EXCEPT !.pc = "done", !.result = "Err"]
        ELSE IF un.k < Len(un.variants)
        THEN [base EXCEPT !.pc = "tmpnew", !.k = un.k + 1]
        ELSE [base EXCEPT !.pc = "done", !.result = "Ok"]

\* a temporary file is [state, size, dir]: "empty" as created, "partial" while
\* the encoder writes, "complete" with the size of the encoding once it is
\* written; dir is the directory it was created in.
\* The size of the complete encoding in the temporary file of unit u, or None
TempEnc(u) ==
    IF tmpdir[u] # None /\ Unwrap(tmpdir[u]).state = "complete"
    THEN Some(Unwrap(tmpdir[u]).size) ELSE None

\* line 65: NamedTempFile::new() takes no directory; the file is created in
\* std::env::temp_dir(), a directory outside the tree under "."
EnvTempDir == <<<<"t", "e", "m", "p">>, <<"e", "n", "v">>>>

TempLocation(target) == EnvTempDir

\* line 67: the file the encoder writes to is temp_path
EncoderOnTarget == "target"

EncoderSink == "temp"

\* what the encoder has written so far: state st, n bytes
Written(u, st, n) ==
    IF EncoderSink = "temp"
    THEN /\ tmpdir' = [tmpdir EXCEPT ![u] =
                          Some([Unwrap(@) EXCEPT !.state = st, !.size = n])]
         /\ UNCHANGED file
    ELSE /\ file' = [file EXCEPT ![unit[u].png].data =
                        [v |-> unit[u].k, state |-> st, size |-> n]]
         /\ UNCHANGED tmpdir

\* line 83 and every `?`: temp_path goes out of scope and its Drop removes
\* the file
DroppedKeepingFile(tmp) == tmp

Dropped(tmp) == None

\* a return of compress_image: temp_path is dropped, which removes the file
\* unless the rename has moved it away
Return(u, outcome, at) ==
    /\ unit' = [unit EXCEPT ![u] =
                    AfterReturn(unit[u], outcome, at, TempEnc(u), file'[unit[u].png])]
    /\ tmpdir' = [tmpdir EXCEPT ![u] =
                    IF outcome = "Success" THEN None ELSE Dropped(@)]

\* line 86: load_and_preprocess(infile_name)?
Load(u) ==
    /\ unit[u].pc = "load"
    /\ LET r == IF unit[u].png \in DOMAIN file
                THEN LoadAndPreprocess(file[unit[u].png].image)
                ELSE LoadAndPreprocess(Undecodable)
       IN  unit' = [unit EXCEPT ![u] =
                IF r.ok
                THEN [@ EXCEPT !.variants = r.images, !.k = 1, !.pc = "tmpnew"]
                ELSE [@ EXCEPT !.pc = "done", !.result = "Err"]]
    /\ UNCHANGED <<input, output, args, tree, file, before, tmpdir, pngs, mainpc, joined, printed, exit>>

\* lines 88-98 and line 65: the dimensions, then NamedTempFile::new()?
CreateTemp(u) ==
    /\ unit[u].pc = "tmpnew"
    /\ LET un == unit[u]
           loaded_image == un.variants[un.k]
           d == PlanDims(loaded_image.width, loaded_image.height, args.x_max, args.y_max)
           entered == [un EXCEPT !.dims = d, !.start = Some(file[un.png]),
                                 !.faulted = FALSE, !.resampled = FALSE]
       IN  \/ /\ unit' = [unit EXCEPT ![u] = [entered EXCEPT !.pc = "resize"]]
              /\ tmpdir' = [tmpdir EXCEPT ![u] =
                              Some([state |-> "empty", size |-> 0,
                                    dir |-> TempLocation(un.png)])]
           \/ /\ unit' = [unit EXCEPT ![u] =
                            AfterReturn(entered, "Failed", "tmpnew", None, file[un.png])]
              /\ UNCHANGED tmpdir
    /\ UNCHANGED <<input, output, args, tree, file, before, pngs, mainpc, joined, printed, exit>>

\* lines 66-68: resize, then the encoder starts to write into the temporary
\* file; a panic of the resize unwinds the thread and drops temp_path
Resize(u) ==
    /\ unit[u].pc = "resize"
    /\ \/ /\ unit' = [unit EXCEPT ![u].pc = "encode", ![u].resampled = TRUE]
          /\ Written(u, "partial", 0)
       \/ /\ unit' = [unit EXCEPT ![u].pc = "panicked", ![u].result = "Panicked"]
          /\ tmpdir' = [tmpdir EXCEPT ![u] = Dropped(@)]
          /\ UNCHANGED file
    /\ UNCHANGED <<input, output, args, tree, before, pngs, mainpc, joined, printed, exit>>

\* line 68: write_with_encoder(..)? completes the encoding or fails
Encode(u) ==
    /\ unit[u].pc = "encode"
    /\ \/ /\ \E n \in Sizes : Written(u, "complete", n)
          /\ unit' = [unit EXCEPT ![u].pc = "exists"]
       \/ UNCHANGED file /\ Return(u, "Failed", "encode")
    /\ UNCHANGED <<input, output, args, tree, before, pngs, mainpc, joined, printed, exit>>

\* line 70: if let Ok(true) = fs::exists(outfile_name); on an Err of
\* fs::exists the block is not entered
Exists(u) ==
    /\ unit[u].pc = "exists"
    /\ \/ unit' = [unit EXCEPT ![u].pc = "meta"]
       \/ unit' = [unit EXCEPT ![u].pc = "rename", ![u].faulted = TRUE]
    /\ UNCHANGED <<input, output, args, tree, file, before, tmpdir, pngs, mainpc, joined, printed, exit>>

\* the comparison of line 73
TargetIsSmallerOrEqual(target_size, temp_size) == target_size <= temp_size

TargetIsSmaller(target_size, temp_size) == target_size < temp_size

\* lines 71-75: the two fs::metadata(..)? and the early return
Meta(u) ==
    /\ unit[u].pc = "meta"
    /\ UNCHANGED file
    /\ \/ IF TargetIsSmaller(file[unit[u].png].data.size, Unwrap(tmpdir[u]).size)
          THEN Return(u, "Skipped", "meta")
          ELSE unit' = [unit EXCEPT ![u].pc = "perms"] /\ UNCHANGED tmpdir
       \/ Return(u, "Failed", "meta")
    /\ UNCHANGED <<input, output, args, tree, before, pngs, mainpc, joined, printed, exit>>

\* line 77: the flag is cleared only if perms.readonly()
AfterPermsNeverClear(readonly) == "rename"

AfterPerms(readonly) == IF readonly THEN "setperm" ELSE "rename"

\* lines 76-77: fs::metadata(..)?.permissions() and perms.readonly()
Perms(u) ==
    /\ unit[u].pc = "perms"
    /\ UNCHANGED file
    /\ \/ /\ unit' = [unit EXCEPT ![u].pc =
                        AfterPerms(file[unit[u].png].readonly)]
          /\ UNCHANGED tmpdir
       \/ Return(u, "Failed", "perms")
    /\ UNCHANGED <<input, output, args, tree, before, pngs, mainpc, joined, printed, exit>>

\* lines 78-79: perms.set_readonly(false); fs::set_permissions(..)?
SetPermissions(u) ==
    /\ unit[u].pc = "setperm"
    /\ \/ /\ file' = [file EXCEPT ![unit[u].png].readonly = FALSE]
          /\ unit' = [unit EXCEPT ![u].pc = "rename"]
          /\ UNCHANGED tmpdir
       \/ UNCHANGED file /\ Return(u, "Failed", "setperm")
    /\ UNCHANGED <<input, output, args, tree, before, pngs, mainpc, joined, printed, exit>>

\* line 82: Ok(fs::rename(temp_path.path(), outfile_name)?).  The rename
\* replaces the target in one step, and is refused for a read-only target
\* (Windows, the platform of line 1)
Rename(u) ==
    /\ unit[u].pc = "rename"
    /\ \/ /\ ~file[unit[u].png].readonly
          /\ file' = [file EXCEPT ![unit[u].png].data =
                        [v |-> unit[u].k, state |-> Unwrap(tmpdir[u]).state,
                         size |-> Unwrap(tmpdir[u]).size]]
          /\ Return(u, "Success", "rename")
       \/ UNCHANGED file /\ Return(u, "Failed", "rename")
    /\ UNCHANGED <<input, output, args, tree, before, pngs, mainpc, joined, printed, exit>>

(* ---------------------------------------------------------------------- *)
(* main, lines 135-163                                                     *)
(* ---------------------------------------------------------------------- *)
\* the Result that main returns after the joins: `let _ = handle.join()`
\* discards every thread's outcome and line 162 is Ok(())
ExitPropagating(us) ==
    IF \E k \in DOMAIN us : us[k].result # "Ok" THEN "Err" ELSE "Ok"

ExitAfterJoins(us) == "Ok"

\* handle.join() returns once the thread has ended, normally or by a panic
JoinableEarly(un) == TRUE

Joinable(un) == Finished(un)

\* lines 137-144: Args::parse, set_current_dir(path)?, find_png_paths(".")
Start ==
    /\ mainpc = "start"
    /\ \/ /\ pngs' = FindPngPaths(tree, Root)
          /\ mainpc' = IF pngs' = <<>> THEN "join" ELSE "spawn"
          /\ UNCHANGED exit
       \/ /\ IsSome(args.dir)
          /\ mainpc' = "exited"
          /\ exit' = Some("Err")
          /\ UNCHANGED pngs
    /\ UNCHANGED <<input, output, args, tree, file, before, tmpdir, unit, joined, printed>>

\* lines 146-148: the k-th iteration of `for png in pngs` moves its own
\* element into the closure of the thread it spawns
SpawnedFirst(ps, k) == ps[1]

Spawned(ps, k) == ps[k]

\* lines 146-152: one thread::spawn per element of pngs
Spawn ==
    /\ mainpc = "spawn"
    /\ unit' = Append(unit, NewUnit(Spawned(pngs, Len(unit) + 1)))
    /\ tmpdir' = Append(tmpdir, None)
    /\ mainpc' = IF Len(unit') = Len(pngs) THEN "join" ELSE "spawn"
    /\ UNCHANGED <<input, output, args, tree, file, before, pngs, joined, printed, exit>>

\* lines 155-160: join the next handle, print i / len
Join ==
    /\ mainpc = "join"
    /\ joined < Len(unit)
    /\ Joinable(unit[joined + 1])
    /\ printed' = Append(printed, ProgressLine(joined, Len(unit)))
    /\ joined' = joined + 1
    /\ UNCHANGED <<input, output, args, tree, file, before, tmpdir, pngs, unit, mainpc, exit>>

\* lines 161-162: the 100% line and Ok(())
Finish ==
    /\ mainpc = "join"
    /\ joined = Len(unit)
    /\ printed' = Append(printed, FinalLine)
    /\ exit' = Some(ExitAfterJoins(unit))
    /\ mainpc' = "exited"
    /\ UNCHANGED <<input, output, args, tree, file, before, tmpdir, pngs, unit, joined>>

(* ---------------------------------------------------------------------- *)
(* The directory trees and files of the runs                               *)
(* ---------------------------------------------------------------------- *)
NameA == <<"a", ".", "p", "n", "g">>
NameB == <<"b", ".", "p", "n", "g">>
NameT == <<"t", ".", "t", "x", "t">>
NameS == <<"s">>
NameU == <<"u">>
NameD == <<"d", ".", "p", "n", "g">>

EmptyTree == (Root :> "dir")
OneFileTree == (Root :> "dir") @@ (<<NameA>> :> "file")
NestedTree ==
    (Root :> "dir") @@ (<<NameA>> :> "file") @@ (<<NameT>> :> "file")
    @@ (<<NameS>> :> "dir") @@ (<<NameS, NameB>> :> "file")
    @@ (<<NameU>> :> "noaccess")
PngDirTree == (Root :> "dir") @@ (<<NameD>> :> "dir") @@ (<<NameD, NameB>> :> "file")

RunTrees == {EmptyTree, OneFileTree, NestedTree, PngDirTree}

\* opaque within the tolerance: two variants
ImgOpaque ==
    [width |-> 2, height |-> 1, color |-> "Rgba8",
     px |-> <<[c |-> 0, a |-> 255], [c |-> 1, a |-> 254]>>]
\* one pixel below the threshold: one variant
ImgTransparent ==
    [width |-> 1, height |-> 2, color |-> "Rgba8",
     px |-> <<[c |-> 0, a |-> 255], [c |-> 1, a |-> 253]>>]

RunImages == {ImgOpaque, ImgTransparent, Undecodable}

RunArgs ==
    {[x_max |-> None, y_max |-> None, dir |-> None],
     [x_max |-> Some(1), y_max |-> Some(1), dir |-> Some(Dot)]}

PngFiles(t) == {q \in DOMAIN t : t[q] = "file" /\ HasPngExtension(q)}

\* every content, size and protection for the files named a.png; the files
\* named b.png that run beside them are one-variant, writable images
FileStates == [image : RunImages, data : {OrigData(n) : n \in Sizes}, readonly : BOOLEAN]

SideFileStates ==
    {[image |-> ImgTransparent, data |-> OrigData(MaxSize - 1), readonly |-> FALSE]}

FileStatesOf(path) ==
    IF path[Len(path)] = NameA THEN FileStates ELSE SideFileStates

Init ==
    /\ input = None
    /\ output = None
    /\ args \in RunArgs
    /\ tree \in RunTrees
    /\ file \in {f \in [PngFiles(tree) -> FileStates \cup SideFileStates] :
                    \A q \in PngFiles(tree) : f[q] \in FileStatesOf(q)}
    /\ before = file
    /\ tmpdir = <<>>
    /\ pngs = <<>>
    /\ unit = <<>>
    /\ mainpc = "start"
    /\ joined = 0
    /\ printed = <<>>
    /\ exit = None

Next ==
    \/ Start
    \/ Spawn
    \/ Join
    \/ Finish
    \/ \E u \in Units : Load(u)
    \/ \E u \in Units : CreateTemp(u)
    \/ \E u \in Units : Resize(u)
    \/ \E u \in Units : Encode(u)
    \/ \E u \in Units : Exists(u)
    \/ \E u \in Units : Meta(u)
    \/ \E u \in Units : Perms(u)
    \/ \E u \in Units : SetPermissions(u)
    \/ \E u \in Units : Rename(u)

Spec == Init /\ [][Next]_vars

(* ---------------------------------------------------------------------- *)
(* The specifications that apply one function to bounded inputs            *)
(* ---------------------------------------------------------------------- *)
RunIdle ==
    /\ args = [x_max |-> None, y_max |-> None, dir |-> None]
    /\ tree = EmptyTree
    /\ file = <<>>
    /\ before = <<>>
    /\ tmpdir = <<>>
    /\ pngs = <<>>
    /\ unit = <<>>
    /\ mainpc = "idle"
    /\ joined = 0
    /\ printed = <<>>
    /\ exit = None

OptArgs == {None} \cup {Some(v) : v \in 0..MaxArg}

InitPlan ==
    /\ input \in [w : 1..MaxDim, h : 1..MaxDim, max_width : OptArgs, max_height : OptArgs]
    /\ output = None
    /\ RunIdle

Plan ==
    /\ output = None
    /\ output' = Some(PlanDims(input.w, input.h, input.max_width, input.max_height))
    /\ UNCHANGED <<input, runVars>>

NextPlan == Plan

SpecPlan == InitPlan /\ [][NextPlan]_vars

InitAlpha ==
    /\ input \in ImagesOf(MaxPixels) \cup {Undecodable}
    /\ output = None
    /\ RunIdle

Preprocess ==
    /\ output = None
    /\ output' = Some(LoadAndPreprocess(input))
    /\ UNCHANGED <<input, runVars>>

NextAlpha == Preprocess

SpecAlpha == InitAlpha /\ [][NextAlpha]_vars


\* the directory trees drawn for find_png_paths: every entry below is absent
\* or of one of its kinds, under the root "."
NameC == <<"c", ".", "P", "N", "G">>
NameH == <<".", "p", "n", "g">>

Candidates ==
    (<<NameA>> :> {"file"}) @@ (<<NameB>> :> {"file"}) @@ (<<NameD>> :> {"file", "dir"})
    @@ (<<NameC>> :> {"file"}) @@ (<<NameT>> :> {"file"}) @@ (<<NameH>> :> {"file"})
    @@ (<<NameS>> :> {"dir", "noaccess"}) @@ (<<NameS, NameB>> :> {"file"})
    @@ (<<NameD, NameB>> :> {"file"})

Parent(path) == SubSeq(path, 1, Len(path) - 1)

WellFormed(t) ==
    \A q \in DOMAIN t :
        q # Root => Parent(q) \in DOMAIN t /\ t[Parent(q)] \in {"dir", "noaccess"}

FindTrees ==
    {t \in UNION {[D \cup {Root} -> {"file", "dir", "noaccess"}] :
                      D \in SUBSET DOMAIN Candidates} :
        /\ t[Root] \in {"dir", "noaccess"}
        /\ \A q \in DOMAIN t \ {Root} : t[q] \in Candidates[q]
        /\ WellFormed(t)}

InitFind ==
    /\ input \in FindTrees
    /\ output = None
    /\ RunIdle

Find ==
    /\ output = None
    /\ output' = Some(FindPngPaths(input, Root))
    /\ UNCHANGED <<input, runVars>>

NextFind == Find

SpecFind == InitFind /\ [][NextFind]_vars

(* ====================================================================== *)
(* Properties                                                              *)
(* ====================================================================== *)
\* the compress_image calls that have returned, with their unit
ReturnedCalls == UNION {{<<u, j>> : j \in 1..Len(unit[u].calls)} : u \in Units}
CallOf(uj) == unit[uj[1]].calls[uj[2]]
RunEnded == mainpc = "exited"
NewEncoding(c) == [v |-> c.k, state |-> "complete", size |-> Unwrap(c.enc)]

\* C1 (never-grow): once the run has ended, no discovered file is larger
\* than the run found it.
NeverGrow ==
    RunEnded => \A q \in DOMAIN file : file[q].data.size <= before[q].data.size

TargetWholeAndShrinking ==
    [][\A q \in DOMAIN file :
          /\ q \in DOMAIN file'
          /\ file'[q].data.state = "complete"
          /\ file'[q].data # file[q].data =>
                /\ file'[q].data.size <= file[q].data.size
                /\ \E u \in Units : /\ unit[u].png = q
                                    /\ unit[u].pc = "rename"
                                    /\ tmpdir[u] # None
                                    /\ tmpdir'[u] = None]_vars

EncodeFailed(c) == c.outcome = "Failed" /\ c.at = "encode"

\* C4 as claimed: once the run has ended, the target of every unit in which
\* an encode failed (of whichever variant) is what the run found.
EncodeFailureKeepsPreRun ==
    RunEnded =>
        \A uj \in ReturnedCalls :
            EncodeFailed(CallOf(uj)) =>
                file[unit[uj[1]].png].data = before[unit[uj[1]].png].data

\* C4 amended: after a failed encode the target is what it was when that
\* compress_image call began, and it is what the run found when the failed
\* encode is that of the first variant.
EncodeFailureKeepsCallStart ==
    \A uj \in ReturnedCalls :
        LET c == CallOf(uj)
            q == unit[uj[1]].png
        IN  EncodeFailed(c) =>
                /\ file[q] = c.start
                /\ c.k = 1 => file[q] = before[q]

FirstEncodeFailed ==
    /\ RunEnded
    /\ \E uj \in ReturnedCalls :
          /\ EncodeFailed(CallOf(uj))
          /\ CallOf(uj).k = 1
          /\ Len(unit[uj[1]].variants) = 2

SecondEncodeFailedAfterReplace ==
    /\ RunEnded
    /\ \E uj \in ReturnedCalls :
          /\ EncodeFailed(CallOf(uj))
          /\ CallOf(uj).k = 2
          /\ file[unit[uj[1]].png].data # before[unit[uj[1]].png].data

\* C5 (alpha-safety): for an image with an alpha channel and some pixel of
\* alpha below 254, load_and_preprocess returns the image alone.
AlphaSafety ==
    (/\ output # None
     /\ input # Undecodable
     /\ input.color = "Rgba8"
     /\ \E k \in 1..Len(input.px) : input.px[k].a <= 253)
    => Unwrap(output) = [ok |-> TRUE, images |-> <<input>>]

NearOpaquePixelKept ==
    /\ output # None
    /\ input # Undecodable
    /\ input.color = "Rgba8"
    /\ \E k \in 1..Len(input.px) : input.px[k].a = 253
    /\ \A k \in 1..Len(input.px) : input.px[k].a >= 253
    /\ Unwrap(output).images = <<input>>

Fits(in) ==
    /\ IsSome(in.max_width) => in.w <= Unwrap(in.max_width)
    /\ IsSome(in.max_height) => in.h <= Unwrap(in.max_height)

\* C6 (no-upscale): when the original fits within every given bound, the
\* planned dimensions are the original ones.
NoUpscale ==
    (output # None /\ Fits(input)) => Unwrap(output) = <<input.w, input.h>>

EndsWithDotPng(name) ==
    /\ Len(name) >= 5
    /\ SubSeq(name, Len(name) - 3, Len(name)) = <<".", "p", "n", "g">>

Reachable(t, q) ==
    \A k \in 0..(Len(q) - 1) : t[SubSeq(q, 1, k)] = "dir"

Range(seq) == {seq[k] : k \in 1..Len(seq)}

\* C7: find_png_paths returns, each once, exactly the files (not
\* directories) named *.png in the root or a directory reachable from it.
DiscoveryExact ==
    output # None =>
        LET found == Unwrap(output)
        IN  /\ Range(found) = {q \in DOMAIN input \ {Root} :
                                  /\ input[q] = "file"
                                  /\ EndsWithDotPng(q[Len(q)])
                                  /\ Reachable(input, q)}
            /\ Cardinality(Range(found)) = Len(found)

OneUnitPerPath ==
    mainpc \in {"join", "exited"} =>
        /\ Len(unit) = Len(pngs)
        /\ \A k \in 1..Len(pngs) : unit[k].png = pngs[k]

JoinsAllThenOk ==
    RunEnded =>
        \/ /\ exit = Some("Ok")
           /\ joined = Len(pngs)
           /\ \A u \in Units : Finished(unit[u])
        \/ /\ exit = Some("Err")
           /\ unit = <<>>
           /\ pngs = <<>>

StepOfOneUnit ==
    \A u \in Units :
        unit'[u] # unit[u] =>
            /\ \A w \in Units \ {u} : unit'[w] = unit[w] /\ tmpdir'[w] = tmpdir[w]
            /\ \A q \in DOMAIN file : q # unit[u].png => file'[q] = file[q]

\* C8 (failure isolation): there is one unit per discovered path; a step of
\* one unit, a failing or panicking one included, leaves every other unit,
\* every other unit's temporary file and every other target as they are;
\* main returns only after every unit has ended and then returns Ok, the
\* only Err being that of set_current_dir before any unit exists.
FailureIsolation ==
    [][OneUnitPerPath' /\ JoinsAllThenOk' /\ StepOfOneUnit]_vars

AllUnitsFailedRunOk ==
    /\ RunEnded
    /\ exit = Some("Ok")
    /\ Len(unit) = 2
    /\ \E u \in Units : unit[u].result = "Panicked"
    /\ \E u \in Units : unit[u].result = "Err"

\* C9 (read-only replace): a call that finds the target write-protected,
\* with an encoding smaller than it and fs::exists reporting it, is not
\* Skipped, has cleared the flag by the time it renames, and when it ends in
\* Success leaves the flag cleared and the new encoding at the target.
ReadOnlyReplace ==
    \A uj \in ReturnedCalls :
        LET c == CallOf(uj)
        IN  (/\ c.start.readonly
             /\ c.enc # None
             /\ ~c.faulted
             /\ Unwrap(c.enc) < c.start.data.size)
            => /\ c.outcome # "Skipped"
               /\ c.at = "rename" => ~c.end.readonly
               /\ c.outcome = "Success" =>
                     /\ ~c.end.readonly
                     /\ c.end.data = NewEncoding(c)
                     /\ c.end.data # c.start.data

ReadOnlyReplaced ==
    \E uj \in ReturnedCalls :
        LET c == CallOf(uj)
        IN  /\ c.start.readonly
            /\ c.outcome = "Success"
            /\ Unwrap(c.enc) < c.start.data.size
            /\ ~file[unit[uj[1]].png].readonly

FullPercent == 10000

\* C10 (progress): the printed percentages never decrease, 100% is printed
\* only as the last line, after every unit has ended and been joined, and a
\* run that returns Ok has printed one line per unit and then 100%.
ProgressMonotone ==
    /\ \A k \in 1..(Len(printed) - 1) : printed[k] <= printed[k + 1]
    /\ \A k \in 1..Len(printed) :
          printed[k] = FullPercent =>
              /\ k = Len(printed)
              /\ joined = Len(pngs)
              /\ \A u \in Units : Finished(unit[u])
              /\ Len(unit) = Len(pngs)
    /\ exit = Some("Ok") =>
          /\ Len(printed) = Len(pngs) + 1
          /\ printed[Len(printed)] = FullPercent

ProgressOfTwoUnits ==
    /\ exit = Some("Ok")
    /\ printed = <<0, 5000, FullPercent>>

ProgressOfNoUnit ==
    /\ exit = Some("Ok")
    /\ pngs = <<>>
    /\ printed = <<FullPercent>>

\* the target of a unit is at its planned dimensions: planning from the
\* image the run found gives the dimensions of that image
AtTargetDims(un) ==
    LET image == before[un.png].image
    IN  /\ image # Undecodable
        /\ PlanDims(image.width, image.height, args.x_max, args.y_max)
               = <<image.width, image.height>>

\* the target of a unit is minimally encoded: no encoding the unit produced
\* is smaller than the file the run found
MinimallyEncoded(un) ==
    \A j \in 1..Len(un.calls) :
        IsSome(un.calls[j].enc) => Unwrap(un.calls[j].enc) >= before[un.png].data.size

\* C11 (idempotence): a run over a target that is already minimally encoded
\* at its planned dimensions ends with the target at the size and the
\* dimensions the run found it with.
Idempotent ==
    RunEnded =>
        \A u \in Units :
            LET un == unit[u]
            IN  (/\ un.png \in DOMAIN file
                 /\ AtTargetDims(un)
                 /\ MinimallyEncoded(un)) =>
                    /\ file[un.png].data.size = before[un.png].data.size
                    /\ un.calls # <<>> =>
                          un.dims = <<before[un.png].image.width,
                                      before[un.png].image.height>>

\* the least of a non-empty set of numbers
Least(S) == CHOOSE n \in S : \A m \in S : n <= m

\* C12 (keep-smallest): when both compress_image calls of a two-variant file
\* returned Ok, the second call started from the file the first one left, and
\* the target ends with the least of the original size and the two encodings.
KeepSmallest ==
    \A u \in Units :
        LET un == unit[u]
        IN  (/\ Len(un.variants) = 2
             /\ Len(un.calls) = 2
             /\ un.calls[1].outcome # "Failed"
             /\ un.calls[2].outcome # "Failed") =>
                /\ un.calls[2].start = un.calls[1].end
                /\ file[un.png].data.size =
                       Least({before[un.png].data.size,
                              Unwrap(un.calls[1].enc), Unwrap(un.calls[2].enc)})

\* the calls of a two-variant unit so far: the with-alpha image first, the
\* alpha-stripped one second, each call on the file the previous one left,
\* and the second call entered only after the first has returned Ok
InVariantOrder(un) ==
    /\ un.variants[1] = before[un.png].image
    /\ un.variants[2] = StripAlpha(before[un.png].image)
    /\ Len(un.calls) <= 2
    /\ \A j \in 1..Len(un.calls) : un.calls[j].k = j
    /\ Len(un.calls) = 2 => un.calls[2].start = un.calls[1].end
    /\ un.k = 2 => (Len(un.calls) >= 1 /\ un.calls[1].outcome # "Failed")
    /\ IsSome(un.start) => un.k = Len(un.calls) + 1

\* C13 as claimed: a unit with two variants always passes both, in order,
\* through compress_image.
BothVariantsAlways ==
    \A u \in Units :
        LET un == unit[u]
        IN  Len(un.variants) = 2 =>
                /\ InVariantOrder(un)
                /\ Finished(un) => Len(un.calls) = 2

\* C13 amended: a unit with two variants passes them in the fixed order
\* through compress_image for the same target, one call after the other, and
\* passes both unless the first call fails or panics, which ends the unit.
VariantSequencing ==
    \A u \in Units :
        LET un == unit[u]
        IN  Len(un.variants) = 2 =>
                /\ InVariantOrder(un)
                /\ Finished(un) =>
                      \/ Len(un.calls) = 2
                      \/ Len(un.calls) = 1 /\ un.calls[1].outcome = "Failed"
                                           /\ un.result = "Err"
                      \/ un.pc = "panicked"
                /\ (Finished(un) /\ un.result = "Ok") => Len(un.calls) = 2

BothVariantsReplaced ==
    \E u \in Units :
        /\ Len(unit[u].variants) = 2
        /\ Len(unit[u].calls) = 2
        /\ unit[u].calls[1].outcome = "Success"
        /\ unit[u].calls[2].outcome = "Success"
        /\ unit[u].calls[2].start.data.v = 1
        /\ file[unit[u].png].data.v = 2

\* C14 (dimensions at least 1x1): for an image of at least 1x1 and bounds of
\* at least 1, the planned width and height are both at least 1.
DimsAtLeastOne ==
    output # None =>
        LET bounded(o) == IsSome(o) => Unwrap(o) >= 1
        IN  (/\ input.w >= 1
             /\ input.h >= 1
             /\ bounded(input.max_width)
             /\ bounded(input.max_height)) =>
                /\ Unwrap(output)[1] >= 1
                /\ Unwrap(output)[2] >= 1

\* the steps of compress_image before the rename of line 82
EarlySteps == {"tmpnew", "encode", "meta", "perms", "setperm"}

\* C15 (target untouched on early failure): a compress_image call that fails
\* at a step before the rename returns Err, which ends the unit with that
\* Err, and the content of the target is what it was when the call began.
EarlyFailureKeepsTarget ==
    \A uj \in ReturnedCalls :
        LET c == CallOf(uj)
            un == unit[uj[1]]
        IN  (c.outcome = "Failed" /\ c.at \in EarlySteps) =>
                /\ c.end.data = c.start.data
                /\ file[un.png].data = c.start.data
                /\ un.result = "Err"
                /\ uj[2] = Len(un.calls)

FailedClearingWriteProtection ==
    \E uj \in ReturnedCalls :
        LET c == CallOf(uj)
        IN  /\ c.outcome = "Failed"
            /\ c.at = "setperm"
            /\ IsSome(c.enc)
            /\ c.start.readonly
            /\ file[unit[uj[1]].png] = c.start

\* C16 (temporary file placement): the temporary file of a call lies in the
\* directory of the call's target.
TempBesideTarget ==
    \A u \in Units :
        IsSome(tmpdir[u]) => Unwrap(tmpdir[u]).dir = Parent(unit[u].png)

\* C17 (no orphaned temporary files): a unit that is not inside a
\* compress_image call has no temporary file, whatever the outcomes of the
\* calls that returned, and none is left when the run has ended.
NoOrphanTemp ==
    /\ \A u \in Units :
          unit[u].pc \in {"load", "tmpnew", "done", "panicked"} => tmpdir[u] = None
    /\ RunEnded => \A u \in Units : tmpdir[u] = None

SkippedAndFailedWithoutTemp ==
    /\ RunEnded
    /\ \E u \in Units :
          /\ Len(unit[u].calls) = 2
          /\ unit[u].calls[1].outcome = "Skipped"
          /\ unit[u].calls[2].outcome = "Failed"
          /\ unit[u].calls[2].at = "rename"
          /\ tmpdir[u] = None

\* C18 (resampling only on change): a call whose planned dimensions equal
\* the dimensions of its variant does not apply resize to it.
ResampleOnlyOnChange ==
    /\ \A uj \in ReturnedCalls :
          LET c == CallOf(uj)
              image == unit[uj[1]].variants[c.k]
          IN  c.dims = <<image.width, image.height>> => ~c.resampled
    /\ \A u \in Units :
          LET un == unit[u]
          IN  (IsSome(un.start) /\ un.dims = <<un.variants[un.k].width,
                                             un.variants[un.k].height>>) =>
                  ~un.resampled

\* the units that work on target path q
WorkersOf(q) == {u \in Units : unit[u].png = q}

\* C19 (worker exclusivity): in every interleaving each discovered path has
\* at most one unit, and exactly one once all are spawned; a target changes
\* (content or permissions) only in a step of its own unit, and a temporary
\* file is created, written, renamed or removed only in a step of the unit
\* that owns it.
WorkerExclusivity ==
    [][/\ \A k \in 1..Len(pngs') : Cardinality({u \in DOMAIN unit' : unit'[u].png = pngs'[k]}) <= 1
       /\ mainpc' \in {"join", "exited"} =>
             \A k \in 1..Len(pngs') :
                 Cardinality({u \in DOMAIN unit' : unit'[u].png = pngs'[k]}) = 1
       /\ \A u \in DOMAIN unit' : \E k \in 1..Len(pngs') : unit'[u].png = pngs'[k]
       /\ \A q \in DOMAIN file :
             file'[q] # file[q] =>
                 \E u \in WorkersOf(q) :
                     /\ WorkersOf(q) = {u}
                     /\ unit'[u] # unit[u]
                     /\ unit[u].pc \in {"setperm", "rename"}
       /\ \A u \in Units :
             tmpdir'[u] # tmpdir[u] =>
                 /\ unit'[u] # unit[u]
                 /\ \A w \in Units \ {u} : unit'[w] = unit[w]]_vars

TwoWorkersInterleaved ==
    /\ Len(unit) = 2
    /\ unit[1].png # unit[2].png
    /\ IsSome(tmpdir[1])
    /\ IsSome(tmpdir[2])
    /\ unit[1].pc = "rename"
    /\ unit[2].pc = "rename"

====
